---- MODULE Spec2Model ----
(***************************************************************************)
(* Model of the unit harvester of lds-datasets                             *)
(*   src/src/lds_datasets/units/units.py      (planner, harvester, differ, *)
(*                                             snapshot store)             *)
(*   src/src/lds_datasets/temples/scraper.py  (send_request_with_retry)    *)
(*                                                                         *)
(* Specifications:                                                         *)
(*   Spec       one call of get_wards_from_web as main() makes it: the     *)
(*              control thread, the pool workers, the shared set, the lock *)
(*   SpecPlan   repeated calls of get_wards_from_web over many region      *)
(*              configurations; only planning and dispatch are observed    *)
(*   SpecDiff   write_daily_files over bounded pairs of snapshots          *)
(*   SpecRetry  send_request_with_retry against every server behaviour     *)
(***************************************************************************)
EXTENDS Integers, Sequences, FiniteSets, TLC

VARIABLES
    regions,                  \* units.py:205  module-level region list
    pc,                       \* position of the control thread
    gi,                       \* index of the UNIT_TYPES loop (units.py:1091)
    ri,                       \* index of the region loop (units.py:1108)
    wards,                    \* units.py:1084 the shared set
    lock,                     \* units.py:1086 owner of the lock, 0 = free
    queue,                    \* work items of the pool not yet taken
    th,                       \* per-thread frame of _get_wards_at_coords
    total_requests,           \* units.py:1087
    pre_region_update_count,  \* units.py:1110
    stats,                    \* what the log lines of the run add up to
    responses,                \* the response bodies that were parsed
    files,                    \* the files the run wrote
    run,                      \* number of calls of get_wards_from_web
    plans,                    \* per call: the cell lists it worked with
    requests,                 \* per call: the requests it dispatched
    old_units,                \* write_daily_files argument
    new_units,                \* write_daily_files argument
    unit_type,                \* write_daily_files argument
    daily,                    \* the four sets write_daily_files dumps
    rq,                       \* frame of send_request_with_retry
    days,                     \* the date of the host and its data/ directory
    net                       \* what a GET of this run can come back with

vars == <<regions, pc, gi, ri, wards, lock, queue, th, total_requests,
          pre_region_update_count, stats, responses, files, run, plans,
          requests, old_units, new_units, unit_type, daily, rq, days,
          net>>

harvestVars == <<pc, gi, ri, wards, lock, queue, th, total_requests,
                 pre_region_update_count, stats, responses, files, net>>
planVars == <<run, plans, requests>>
diffVars == <<old_units, new_units, unit_type, daily>>

----------------------------------------------------------------------------
(* Bounds *)

NumUnitTypes == 1      \* how many entries of UNIT_TYPES the model keeps
NumWorkers == 2        \* pool threads the model runs (max_workers is 20)
MaxRuns == 2           \* calls of get_wards_from_web in one process
MaxRows == 2           \* num_rows / num_columns range of SpecPlan
MaxPinned == 1         \* pinned coordinates per region in SpecPlan
MaxRequests == 5       \* requests one send_request_with_retry call may issue
MaxDay == 4            \* days the host lives through in SpecDays

----------------------------------------------------------------------------
(* Optional values: None is the empty sequence, Some(x) is <<x>> *)

None == <<>>
Some(x) == <<x>>

(* Python truthiness of an Optional[int]: None and 0 are falsy *)
Truthy(o) == o # None /\ o[1] # 0

----------------------------------------------------------------------------
(* Exact rationals for the centroid arithmetic (units.py:1069-1075) *)

Abs(x) == IF x < 0 THEN -x ELSE x

RECURSIVE GCD(_, _)
GCD(a, b) == IF b = 0 THEN a ELSE GCD(b, a % b)

Frac(n, d) ==
    LET g == GCD(Abs(n), Abs(d))
        s == IF d < 0 THEN -1 ELSE 1
    IN  [n |-> (s * n) \div g, d |-> (s * d) \div g]

FInt(x) == [n |-> x, d |-> 1]
FAdd(a, b) == Frac(a.n * b.d + b.n * a.d, a.d * b.d)
FMul(a, b) == Frac(a.n * b.n, a.d * b.d)

----------------------------------------------------------------------------
(* Unit: identity is the pair (id, name) *)

Unit_eq_IdOnly(a, b) == a.id = b.id

Unit_eq(a, b) == a.id = b.id /\ a.name = b.name

Contains(s, u) == \E x \in s : Unit_eq(x, u)

(* set.add of an element equal to a member leaves the member in place *)
KeepMember_Replaced(s, u) == {x \in s : ~Unit_eq(x, u)} \cup {u}

KeepMember(s, u) == s

SetAdd_NoTest(s, u) == s \cup {u}

SetAdd(s, u) == IF Contains(s, u) THEN KeepMember(s, u) ELSE s \cup {u}

RECURSIVE SetUpdate(_, _)
SetUpdate(s, models) ==
    IF models = <<>> THEN s
    ELSE SetUpdate(SetAdd(s, Head(models)), Tail(models))

(* the (id, name) pairs of a collection of units *)
Key(u) == <<u.id, u.name>>
Keys(s) == {Key(u) : u \in s}
SeqSet(q) == {q[i] : i \in 1..Len(q)}

U(id, name, org) == [id |-> id, name |-> name, org |-> org]

(* the records the server can answer with: unit 1/"A" exists in two
   variants that differ outside the identity, 1/"B" shares only the id *)
Universe ==
    { U(1, "A", "Ward"), U(1, "A", "Branch"), U(2, "B", "Ward"),
      U(3, "C", "Branch"), U(1, "B", "None") }

Batches ==
    { <<>>,
      << U(1, "A", "Ward"), U(2, "B", "Ward") >>,
      << U(1, "A", "Ward"), U(3, "C", "Branch") >>,
      << U(1, "A", "Branch"), U(1, "B", "None"), U(1, "A", "Ward") >> }

----------------------------------------------------------------------------
(* Coverage planner: units.py:1065-1078 *)

Coordinate(lon, lat, city, nearest) ==
    [lon |-> lon, lat |-> lat, city |-> city, nearest |-> nearest]

Region(name, min_lat, max_lat, min_lon, max_lon, nearest, rows, cols, coords) ==
    [name |-> name, min_lat |-> min_lat, max_lat |-> max_lat,
     min_lon |-> min_lon, max_lon |-> max_lon, nearest |-> nearest,
     num_rows |-> rows, num_columns |-> cols, coordinates |-> coords]

(* number of grid positions the two nested loops visit *)
GridSize_RowsPlusOne(region) == (region.num_rows + 1) * region.num_columns

GridSize(region) == region.num_rows * region.num_columns

(* (i + 0.5) * step, with step = (max - min) / n *)
Centroid_Corner(min, max, n, i) ==
    FAdd(FInt(min), FMul(FInt(i), Frac(max - min, n)))

Centroid(min, max, n, i) ==
    FAdd(FInt(min), FMul(Frac(2 * i + 1, 2), Frac(max - min, n)))

(* the Coordinate appended for grid position k, rows outermost *)
GridCell(region, k) ==
    LET i == (k - 1) \div region.num_columns
        j == (k - 1) % region.num_columns
    IN  Coordinate(
          Centroid(region.min_lon, region.max_lon, region.num_columns, j),
          Centroid(region.min_lat, region.max_lat, region.num_rows, i),
          None, None)

GridCells(region) == [k \in 1..GridSize(region) |-> GridCell(region, k)]

(* the divisions of lines 1069-1070 raise ZeroDivisionError *)
ZeroDivision(region) == region.num_rows = 0 \/ region.num_columns = 0

(* index of the first region whose step computation raises *)
FirstRaising(rs) ==
    IF \E r \in 1..Len(rs) : ZeroDivision(rs[r])
    THEN CHOOSE r \in 1..Len(rs) :
            /\ ZeroDivision(rs[r])
            /\ \A q \in 1..(r - 1) : ~ZeroDivision(rs[q])
    ELSE Len(rs) + 1

(* the planning loop: every region before the first raising one has its
   grid appended to its own "coordinates" list *)
PlanRegions(rs) ==
    [r \in 1..Len(rs) |->
        IF r < FirstRaising(rs)
        THEN [rs[r] EXCEPT !.coordinates = @ \o GridCells(rs[r])]
        ELSE rs[r]]

PlanRaises(rs) == FirstRaising(rs) <= Len(rs)

(* units.py:1202-1204: k = coord.nearest or nearest *)
NearestOf(coord, nearest) ==
    IF Truthy(coord.nearest) THEN coord.nearest[1] ELSE nearest

Request(coord, nearest, layers) ==
    [layers |-> layers, coordinates |-> <<coord.lon, coord.lat>>,
     nearest |-> NearestOf(coord, nearest)]

AllUnitTypes == << "WARD__NEPALI", "WARD__STUDENT_MARRIED", "WARD__TONGAN_YSA" >>

UNIT_TYPES == SubSeq(AllUnitTypes, 1, NumUnitTypes)

GlobalCoord == Coordinate(FInt(0), FInt(0), "Global", Some(2000))

----------------------------------------------------------------------------
(* Differ: write_daily_files, units.py:949-1049 *)

BigType(ut) == IF ut = "Stake" THEN "Stake" ELSE "Ward"
SmallType(ut) == IF ut = "Stake" THEN "District" ELSE "Branch"

(* lines 956-957: for unit in new_units: if unit not in old_units *)
NotInOld(old, new) == {u \in new : ~Contains(old, u)}

(* lines 986-987: for unit in old_units: if unit not in new_units *)
NotInNew_NoTest(old, new) == old

NotInNew(old, new) == {u \in old : ~Contains(new, u)}

(* lines 958-982 and 988-1012: the organizationType.display tests *)
OfType_AnyType(s, display) == s

OfType(s, display) == {u \in s : u.org = display}

WriteDailyFiles(old, new, ut) ==
    [units_added         |-> OfType(NotInOld(old, new), BigType(ut)),
     units_removed       |-> OfType(NotInNew(old, new), BigType(ut)),
     small_units_added   |-> OfType(NotInOld(old, new), SmallType(ut)),
     small_units_removed |-> OfType(NotInNew(old, new), SmallType(ut))]

(* lines 1014-1021: the "Net units today." record of the log, the only
   counts write_daily_files reports *)
NetUnitsToday(d) ==
    [units_added         |-> Cardinality(d.units_added),
     units_removed       |-> Cardinality(d.units_removed),
     small_units_added   |-> Cardinality(d.small_units_added),
     small_units_removed |-> Cardinality(d.small_units_removed)]

(* count_unit_types, lines 535-580: how many units carry the first and
   the second organization type of the collection *)
CountUnitTypes(units, ut) ==
    << Cardinality({u \in units : u.org = BigType(ut)}),
       Cardinality({u \in units : u.org = SmallType(ut)}) >>

(* main, lines 438-469: the net counts handed to append_daily_summary *)
NetCounts(old, new, ut) ==
    << CountUnitTypes(new, ut)[1] - CountUnitTypes(old, ut)[1],
       CountUnitTypes(new, ut)[2] - CountUnitTypes(old, ut)[2] >>

(* sets of Unit objects: no two members are equal under Unit.__eq__ *)
UnitSets(universe) ==
    {s \in SUBSET universe : \A a, b \in s : Key(a) = Key(b) => a = b}

----------------------------------------------------------------------------
(* Harvester: get_wards_from_web and _get_wards_at_coords *)

Main == 0
Workers == 1..NumWorkers
Threads == {Main} \cup Workers

NoCoord == Coordinate(FInt(0), FInt(0), None, None)

IdleFrame ==
    [pc |-> "idle", coord |-> NoCoord, nearest |-> 0, layers |-> "",
     cell |-> <<0, 0>>, status |-> 0, data |-> <<>>, pre_update_count |-> 0,
     post_update_count |-> 0, fresh |-> 0]

(* what requests.get can do *)
Resp(status, body, data) ==
    [kind |-> "response", status |-> status, body |-> body, data |-> data]
ConnectionError == [kind |-> "ConnectionError", status |-> 0, body |-> "", data |-> <<>>]
OtherError == [kind |-> "Timeout", status |-> 0, body |-> "", data |-> <<>>]

(* body "list": a JSON array of valid units; "invalid": JSON that Unit
   rejects; "text": not JSON *)
ServerResponses ==
    {Resp(200, "list", b) : b \in Batches}
      \cup { Resp(200, "text", <<>>), Resp(200, "invalid", <<>>),
             Resp(500, "text", <<>>),
             Resp(500, "list", << U(2, "B", "Ward") >>) }

GetOutcomes == {ConnectionError, OtherError} \cup ServerResponses

(* lines 1226-1230 raise on a body that is not a list of valid units *)
ParseRaises(o) == o.body # "list"

(* units.py:1232 "with lock": the lock is taken only when it is free *)
CanAcquire_NoLock(l) == TRUE

CanAcquire(l) == l = 0

SpecRegions ==
    << Region("R1", 0, 10, 0, 10, 1000, 1, 1,
              << Coordinate(FInt(3), FInt(4), "Pinned", Some(1500)) >>),
       Region("R2", 0, 10, 20, 40, 2000, 1, 1, <<>>) >>

NoStats == [cells |-> 0, added |-> 0, duplicates |-> 0, fetched |-> 0,
            failed |-> 0, started |-> 0, dispatched |-> {}, gets |-> 0,
            conn_errors |-> 0, returned |-> 0, finished |-> {},
            region_added |-> 0]

NoDaily == [units_added |-> {}, units_removed |-> {},
            small_units_added |-> {}, small_units_removed |-> {}]

YesterdayWards == { U(1, "A", "Ward"), U(3, "C", "Branch") }

NoFiles == [yesterday |-> Some(YesterdayWards), ereyesterday |-> Some({}),
            today |-> None, daily |-> None]

NoRq == [pc |-> "idle", retries |-> 0, retry_delay |-> 0, requests |-> 0,
         history |-> <<>>, sleeps |-> <<>>, result |-> None]

(* lines 20-32: the names of the snapshot files hold the day the script
   started; the days the model tells apart *)
Days == (-1)..MaxDay

(* lines 505-529: a row of data/daily_summary.csv, the four totals and
   the four net counts in the order of the columns *)
SummaryRow(day, totals, nets) ==
    [scrape_timestamp |-> day, totals |-> totals, nets |-> nets]

(* the data/ directory holds the snapshot of the day before only, and a
   summary with the row of that day *)
NoDays == [today |-> 1,
           snapshots |-> [k \in Days |->
                             IF k = 0 THEN Some(YesterdayWards) ELSE None],
           last_run |-> "none",
           summary |-> << SummaryRow(0, <<1, 0, 1, 1>>, <<0, 0, 0, 0>>) >>,
           summary_op |-> "none"]

PlanIdle ==
    /\ run = 0
    /\ plans = <<>>
    /\ requests = <<>>

DiffIdle ==
    /\ old_units = {}
    /\ new_units = {}
    /\ unit_type = "Ward"
    /\ daily = None

HarvestIdle ==
    /\ pc = "start"
    /\ gi = 1
    /\ ri = 1
    /\ wards = {}
    /\ lock = 0
    /\ queue = <<>>
    /\ th = [t \in Threads |-> IdleFrame]
    /\ total_requests = 0
    /\ pre_region_update_count = 0
    /\ stats = NoStats
    /\ responses = {}
    /\ files = NoFiles

Init ==
    /\ regions = SpecRegions
    /\ HarvestIdle
    /\ PlanIdle
    /\ DiffIdle
    /\ rq = NoRq
    /\ net = GetOutcomes
    /\ days = NoDays

others == <<run, plans, requests, old_units, new_units, unit_type, daily, rq,
            days, net>>

(* lines 1065-1084: the planning loop, then the set and the lock are made *)
Plan ==
    /\ pc = "start"
    /\ regions' = PlanRegions(regions)
    /\ pc' = IF PlanRaises(regions) THEN "crashed" ELSE "global"
    /\ UNCHANGED <<gi, ri, wards, lock, queue, th, total_requests,
                   pre_region_update_count, stats, responses, files, others>>

(* a cell, named by its region (0 for the UNIT_TYPES loop) and its position
   in the list, enters _get_wards_at_coords *)
Started(cell) ==
    [stats EXCEPT !.started = @ + 1, !.dispatched = @ \cup {cell}]

(* lines 1091-1103: the control thread calls _get_wards_at_coords itself *)
CallGlobal ==
    /\ pc = "global"
    /\ gi <= Len(UNIT_TYPES)
    /\ th' = [th EXCEPT ![Main] =
                [IdleFrame EXCEPT !.pc = "get", !.coord = GlobalCoord,
                                  !.cell = <<0, gi>>,
                                  !.nearest = 2000, !.layers = UNIT_TYPES[gi]]]
    /\ pc' = "in_global"
    /\ stats' = Started(<<0, gi>>)
    /\ UNCHANGED <<regions, gi, ri, wards, lock, queue, total_requests,
                   pre_region_update_count, responses, files, others>>

(* line 1107: the UNIT_TYPES loop is over *)
GlobalDone ==
    /\ pc = "global"
    /\ gi > Len(UNIT_TYPES)
    /\ pc' = "regions"
    /\ UNCHANGED <<regions, gi, ri, wards, lock, queue, th, total_requests,
                   pre_region_update_count, stats, responses, files, others>>

(* lines 1109-1125: executor.map submits every coordinate of the region *)
StartRegion ==
    /\ pc = "regions"
    /\ ri <= Len(regions)
    /\ pre_region_update_count' = Cardinality(wards)
    /\ queue' = regions[ri].coordinates
    /\ pc' = "pool"
    /\ stats' = [stats EXCEPT !.region_added = 0]
    /\ UNCHANGED <<regions, gi, ri, wards, lock, th, total_requests,
                   responses, files, others>>

(* the work item at the head of the queue: region and position in
   region["coordinates"] *)
NextCell == <<ri, Len(regions[ri].coordinates) - Len(queue) + 1>>

(* line 1111, max_workers: a pool thread runs one work item at a time *)
WorkerFree_Always(t) == TRUE

WorkerFree(t) == th[t].pc = "idle"

(* a pool thread takes the next work item: the lambda of lines 1113-1123 *)
Take(t) ==
    /\ t \in Workers
    /\ pc = "pool"
    /\ WorkerFree(t)
    /\ queue # <<>>
    /\ th' = [th EXCEPT ![t] =
                [IdleFrame EXCEPT !.pc = "get", !.coord = Head(queue),
                                  !.cell = NextCell,
                                  !.nearest = regions[ri].nearest,
                                  !.layers = "WARD"]]
    /\ queue' = Tail(queue)
    /\ stats' = Started(NextCell)
    /\ UNCHANGED <<regions, pc, gi, ri, wards, lock, total_requests,
                   pre_region_update_count, responses, files, others>>

(* _get_wards_at_coords returns to its caller: a pool thread is free again,
   the control thread goes on with line 1104 *)
Return(t) ==
    /\ th' = [th EXCEPT ![t] = IdleFrame]
    /\ pc' = IF t = Main THEN "global" ELSE pc
    /\ gi' = IF t = Main THEN gi + 1 ELSE gi
    /\ total_requests' = IF t = Main THEN total_requests + 1 ELSE total_requests

(* an exception leaves _get_wards_at_coords: in the pool it ends in the
   future nobody reads, in the control thread it ends get_wards_from_web *)
Raise(t) ==
    /\ th' = [th EXCEPT ![t] = IdleFrame]
    /\ pc' = IF t = Main THEN "crashed" ELSE pc
    /\ UNCHANGED <<gi, total_requests>>

(* one more call of _get_wards_at_coords has returned or raised *)
Returned(st, cell) ==
    [st EXCEPT !.returned = @ + 1, !.finished = @ \cup {cell}]

(* one more requests.get was made *)
Got(st) == [st EXCEPT !.gets = @ + 1]

Failed(st, n) == [st EXCEPT !.failed = @ + n]

(* line 1209: only a ConnectionError of the first GET is retried *)
Retryable_AnyException(o) == o.kind # "response"

Retryable(o) == o.kind = "ConnectionError"

(* lines 1222-1230: status check (log only), response.json(), validation *)
AfterResponse(t, o) ==
    IF ParseRaises(o)
    THEN /\ Raise(t)
         /\ stats' = Returned(Failed(Got(stats), 1), th[t].cell)
         /\ UNCHANGED responses
    ELSE /\ th' = [th EXCEPT ![t].pc = "enter", ![t].data = o.data,
                             ![t].status = o.status]
         /\ stats' = Failed(Got(stats), IF o.status # 200 THEN 1 ELSE 0)
         /\ responses' = responses \cup {o.data}
         /\ UNCHANGED <<pc, gi, total_requests>>

(* lines 1207-1209 and, when the GET answers, 1222-1230 *)
Get(t) ==
    /\ th[t].pc = "get"
    /\ \E o \in net :
         IF Retryable(o)
         THEN /\ th' = [th EXCEPT ![t].pc = "retry"]
              /\ stats' = [Got(stats) EXCEPT !.conn_errors =
                             @ + IF o.kind = "ConnectionError" THEN 1 ELSE 0]
              /\ UNCHANGED <<pc, gi, total_requests, responses>>
         ELSE IF o.kind # "response"
         THEN /\ Raise(t)
              /\ stats' = Returned(Failed(Got(stats), 1), th[t].cell)
              /\ UNCHANGED responses
         ELSE AfterResponse(t, o)
    /\ UNCHANGED <<regions, ri, wards, lock, queue,
                   pre_region_update_count, files, others>>

(* lines 1210-1220 and, when the second GET answers, 1222-1230 *)
Retry(t) ==
    /\ th[t].pc = "retry"
    /\ \E o \in net :
         IF o.kind # "response"
         THEN /\ Return(t)
              /\ stats' = Returned(Failed(Got(stats), 1), th[t].cell)
              /\ UNCHANGED responses
         ELSE AfterResponse(t, o)
    /\ UNCHANGED <<regions, ri, wards, lock, queue,
                   pre_region_update_count, files, others>>

(* lines 1232-1233 *)
Enter(t) ==
    /\ th[t].pc = "enter"
    /\ CanAcquire(lock)
    /\ lock' = t
    /\ th' = [th EXCEPT ![t].pc = "update",
                        ![t].pre_update_count = Cardinality(wards)]
    /\ UNCHANGED <<regions, pc, gi, ri, wards, queue, total_requests,
                   pre_region_update_count, stats, responses, files, others>>

(* line 1234; fresh notes how many of the cell's entities the set lacked *)
Update(t) ==
    /\ th[t].pc = "update"
    /\ wards' = SetUpdate(wards, th[t].data)
    /\ th' = [th EXCEPT ![t].pc = "leave",
                        ![t].fresh = Cardinality(Keys(SeqSet(th[t].data))
                                                   \ Keys(wards))]
    /\ UNCHANGED <<regions, pc, gi, ri, lock, queue, total_requests,
                   pre_region_update_count, stats, responses, files, others>>

(* line 1235 and the end of the with block *)
Leave(t) ==
    /\ th[t].pc = "leave"
    /\ lock' = 0
    /\ th' = [th EXCEPT ![t].pc = "log",
                        ![t].post_update_count = Cardinality(wards)]
    /\ UNCHANGED <<regions, pc, gi, ri, wards, queue, total_requests,
                   pre_region_update_count, stats, responses, files, others>>

(* lines 1237-1247 *)
Log(t) ==
    /\ th[t].pc = "log"
    /\ LET added == th[t].post_update_count - th[t].pre_update_count
       IN  stats' = [Returned(stats, th[t].cell) EXCEPT
                       !.cells = @ + 1,
                       !.region_added = @ + IF t = Main THEN 0 ELSE added,
                       !.added = @ + added,
                       !.duplicates = @ + (Len(th[t].data) - added),
                       !.fetched = @ + Len(th[t].data)]
    /\ Return(t)
    /\ UNCHANGED <<regions, ri, wards, lock, queue,
                   pre_region_update_count, responses, files, others>>

(* line 1125: leaving the with block is shutdown(wait=True), it returns
   when no work item is queued or running *)
PoolDone_NoWait == queue = <<>>

PoolDone ==
    /\ queue = <<>>
    /\ \A t \in Workers : th[t].pc = "idle"

(* lines 1125-1136 *)
FinishRegion ==
    /\ pc = "pool"
    /\ PoolDone
    /\ total_requests' = total_requests + Len(regions[ri].coordinates)
    /\ ri' = ri + 1
    /\ pc' = "regions"
    /\ UNCHANGED <<regions, gi, wards, lock, queue, th,
                   pre_region_update_count, stats, responses, files, others>>

(* lines 1138-1144 *)
Finished ==
    /\ pc = "regions"
    /\ ri > Len(regions)
    /\ pc' = "diff"
    /\ UNCHANGED <<regions, gi, ri, wards, lock, queue, th, total_requests,
                   pre_region_update_count, stats, responses, files, others>>

(* lines 1168-1170: the file named by EREYESTERDAY_WARDS_JSON is unlinked *)
Unlinked_Yesterday(f) == [f EXCEPT !.yesterday = None]

Unlinked(f) == [f EXCEPT !.ereyesterday = None]

(* write_units_json, lines 1153-1185: the file of two days ago is unlinked,
   then today's file is opened and written; written is FALSE when that
   raises (OSError) *)
WriteUnitsJson_NoUnlink(f, units, written) ==
    [f EXCEPT !.today = IF written THEN Some(units) ELSE @]

WriteUnitsJson(f, units, written) ==
    [Unlinked(f) EXCEPT !.today = IF written THEN Some(units) ELSE @]

(* lines 1146-1147: get_yesterday_wards_json raises when the file is
   missing, write_daily_files when a daily file cannot be written *)
Diff ==
    /\ pc = "diff"
    /\ \E written \in BOOLEAN :
         IF written /\ files.yesterday # None
         THEN /\ files' = [files EXCEPT !.daily =
                   Some(WriteDailyFiles(files.yesterday[1], wards, "Ward"))]
              /\ pc' = "save"
         ELSE /\ pc' = "io_error"
              /\ UNCHANGED files
    /\ UNCHANGED <<regions, gi, ri, wards, lock, queue, th, total_requests,
                   pre_region_update_count, stats, responses, others>>

(* line 1149 *)
Save ==
    /\ pc = "save"
    /\ \E written \in BOOLEAN :
         /\ files' = WriteUnitsJson(files, wards, written)
         /\ pc' = IF written THEN "done" ELSE "io_error"
    /\ UNCHANGED <<regions, gi, ri, wards, lock, queue, th, total_requests,
                   pre_region_update_count, stats, responses, others>>

Next ==
    \/ Plan
    \/ CallGlobal
    \/ GlobalDone
    \/ StartRegion
    \/ \E t \in Workers : Take(t)
    \/ \E t \in Threads : Get(t)
    \/ \E t \in Threads : Retry(t)
    \/ \E t \in Threads : Enter(t)
    \/ \E t \in Threads : Update(t)
    \/ \E t \in Threads : Leave(t)
    \/ \E t \in Threads : Log(t)
    \/ FinishRegion
    \/ Finished
    \/ Diff
    \/ Save

Spec == Init /\ [][Next]_vars

-----------------------------------------------------------------------------
(* SpecPool: the same harvest over one region that has more cells than the
   pool has threads, against a server that answers or refuses *)

PoolRegions == << Region("R1", 0, 10, 0, 10, 1000, 1, NumWorkers + 1, <<>>) >>

PoolOutcomes == {ConnectionError, Resp(200, "list", << U(1, "A", "Ward") >>)}

InitPool ==
    /\ regions = PoolRegions
    /\ HarvestIdle
    /\ PlanIdle
    /\ DiffIdle
    /\ rq = NoRq
    /\ days = NoDays
    /\ net = PoolOutcomes

SpecPool == InitPool /\ [][Next]_vars

----------------------------------------------------------------------------
(* SpecPlan: get_wards_from_web called again and again in one process, over
   a range of region configurations.  One action is one whole call; the
   responses matter only through whether a call of the control thread's own
   _get_wards_at_coords raises (lines 1091-1103), which ends the call before
   any region is dispatched. *)

Boxes == { <<0, 10, 0, 10>>, <<-57, 24, -82, -34>> }

PinnedCoords ==
    { Coordinate(FInt(3), FInt(4), "Pinned", n) : n \in {None, Some(0), Some(1500)} }

RECURSIVE SeqsUpTo(_, _)
SeqsUpTo(S, n) ==
    IF n = 0 THEN { <<>> }
    ELSE LET shorter == SeqsUpTo(S, n - 1)
         IN  shorter \cup {Append(q, x) : q \in shorter, x \in S}

PlanRegionConfigs(name, nearest, boxes, maxPinned) ==
    { Region(name, b[1], b[2], b[3], b[4], nearest, rows, cols, pinned) :
        b \in boxes, rows \in 0..MaxRows, cols \in 0..MaxRows,
        pinned \in SeqsUpTo(PinnedCoords, maxPinned) }

CoordinateLists(rs) == [r \in 1..Len(rs) |-> rs[r].coordinates]

(* lines 1108-1125: one fetch per entry of region["coordinates"] *)
RegionRequests(region) ==
    [c \in 1..Len(region.coordinates) |->
        Request(region.coordinates[c], region.nearest, "WARD")]

InitPlan ==
    /\ regions \in
         { <<a, b>> :
             a \in PlanRegionConfigs("R1", 1000, Boxes, MaxPinned),
             b \in PlanRegionConfigs("R2", 2000, { <<0, 10, 0, 10>> }, 0) }
    /\ HarvestIdle
    /\ PlanIdle
    /\ DiffIdle
    /\ rq = NoRq
    /\ net = GetOutcomes
    /\ days = NoDays

GetWardsFromWeb ==
    /\ run < MaxRuns
    /\ run' = run + 1
    /\ regions' = PlanRegions(regions)
    /\ \E global_raises \in BOOLEAN :
         LET raised == PlanRaises(regions)
             dispatched == ~raised /\ ~global_raises
         IN  /\ plans' = Append(plans,
                   [entry |-> CoordinateLists(regions),
                    cells |-> CoordinateLists(regions'),
                    raised |-> raised,
                    dispatched |-> dispatched])
             /\ requests' = Append(requests,
                   [r \in 1..Len(regions) |->
                      IF dispatched THEN RegionRequests(regions'[r])
                      ELSE <<>>])
    /\ UNCHANGED <<harvestVars, diffVars, rq, days>>

NextPlan == GetWardsFromWeb

SpecPlan == InitPlan /\ [][NextPlan]_vars

----------------------------------------------------------------------------
(* SpecDiff: write_daily_files on every pair of snapshots over DiffUniverse *)

DiffUniverse ==
    { U(1, "A", "Ward"), U(1, "A", "Branch"), U(2, "B", "Branch"),
      U(3, "C", "Stake"), U(3, "C", "None"), U(4, "D", "District"),
      U(4, "D", "Ward") }

InitDiff ==
    /\ regions = SpecRegions
    /\ HarvestIdle
    /\ PlanIdle
    /\ old_units \in UnitSets(DiffUniverse)
    /\ new_units \in UnitSets(DiffUniverse)
    /\ unit_type \in {"Stake", "Ward"}
    /\ daily = None
    /\ rq = NoRq
    /\ net = GetOutcomes
    /\ days = NoDays

WriteDaily ==
    /\ daily = None
    /\ daily' = Some(WriteDailyFiles(old_units, new_units, unit_type))
    /\ UNCHANGED <<regions, harvestVars, planVars, old_units, new_units,
                   unit_type, rq, days>>

NextDiff == WriteDaily

SpecDiff == InitDiff /\ [][NextDiff]_vars

----------------------------------------------------------------------------
(* SpecRetry: send_request_with_retry, scraper.py:704-753.
   Delays are counted in tenths of a second. *)

max_retries == 3

(* random.uniform(0.1, 0.5) *)
Jitters == {1, 3, 5}

(* what one session.request can do: raise ConnectionError, raise another
   exception, or answer; a 200 carries JSON, a login page or other text *)
RetryOutcomes ==
    {"ConnectionError", "Timeout", "429", "200 json", "200 login",
     "200 text", "500"}

InitRetry ==
    /\ regions = SpecRegions
    /\ HarvestIdle
    /\ PlanIdle
    /\ DiffIdle
    /\ rq = NoRq
    /\ net = GetOutcomes
    /\ days = NoDays

(* lines 711-713 *)
SendRequestWithRetry ==
    /\ rq.pc = "idle"
    /\ \E jitter \in Jitters :
         rq' = [NoRq EXCEPT !.pc = "loop", !.retry_delay = jitter]
    /\ UNCHANGED <<regions, harvestVars, planVars, diffVars, days>>

(* the loop test of line 715 *)
LoopTest_Inclusive(retries) == retries <= max_retries

LoopTest(retries) == retries < max_retries

(* lines 722-725 and 732-734: sleep, double, count *)
Backoff(f) ==
    [f EXCEPT !.sleeps = Append(@, f.retry_delay),
              !.retry_delay = 2 * @,
              !.retries = @ + 1]

(* lines 720 and 728: what the loop answers with a backoff *)
Retried_ServerErrors(o) == o \in {"ConnectionError", "429", "500"}

Retried(o) == o \in {"ConnectionError", "429"}

(* one pass of the loop body, lines 716-750 *)
Attempt ==
    /\ rq.pc = "loop"
    /\ LoopTest(rq.retries)
    /\ rq.requests < MaxRequests
    /\ \E o \in RetryOutcomes :
         LET f == [rq EXCEPT !.requests = @ + 1, !.history = Append(@, o)]
         IN  rq' = CASE Retried(o) -> Backoff(f)
                     [] o = "Timeout" -> [f EXCEPT !.pc = "raised"]
                     [] o \in {"200 json", "500"} ->
                          [f EXCEPT !.pc = "returned",
                                    !.result = Some(f.requests)]
                     [] OTHER -> f
    /\ UNCHANGED <<regions, harvestVars, planVars, diffVars, days>>

(* lines 752-753 *)
GiveUp ==
    /\ rq.pc = "loop"
    /\ ~LoopTest(rq.retries)
    /\ rq' = [rq EXCEPT !.pc = "returned", !.result = None]
    /\ UNCHANGED <<regions, harvestVars, planVars, diffVars, days>>

NextRetry == SendRequestWithRetry \/ Attempt \/ GiveUp

SpecRetry == InitRetry /\ [][NextRetry]_vars

-----------------------------------------------------------------------------
(* Runs of the script on successive days (SpecDays): which snapshot files
   of the wards the data/ directory holds *)

(* what a harvest may come back with *)
DaySnapshots == { {}, {U(1, "A", "Ward")} }

InitDays ==
    /\ regions = SpecRegions
    /\ HarvestIdle
    /\ PlanIdle
    /\ DiffIdle
    /\ rq = NoRq
    /\ net = GetOutcomes
    /\ \E u \in DaySnapshots :
         days = [NoDays EXCEPT !.snapshots[0] = Some(u)]

(* lines 24-32: the files a script started on day d calls yesterday's,
   ereyesterday's and today's *)
DayFiles(d) ==
    [yesterday |-> days.snapshots[d - 1],
     ereyesterday |-> days.snapshots[d - 2],
     today |-> days.snapshots[d],
     daily |-> None]

(* the directory once the script of day d has left its files as f *)
SnapshotsAfter(d, f) ==
    [k \in Days |-> IF k = d THEN f.today
                    ELSE IF k = d - 1 THEN f.yesterday
                    ELSE IF k = d - 2 THEN f.ereyesterday
                    ELSE days.snapshots[k]]

(* how far one run of main --ward_web gets: the harvest raises, writing
   a daily file raises, writing the snapshot raises, or all is written *)
RunOutcomes == {"aborted", "diff_failed", "save_failed", "saved"}

(* main, lines 423-474, with get_wards_from_web, lines 1052-1150: line 438
   reads yesterday's snapshot before anything else, lines 1146-1149 diff
   and save *)
MainWardWeb ==
    \E outcome \in RunOutcomes, units \in DaySnapshots :
        LET f == DayFiles(days.today) IN
        /\ days' =
             IF f.yesterday = None
             THEN [days EXCEPT !.last_run = "FileNotFoundError"]
             ELSE IF outcome \in {"aborted", "diff_failed"}
             THEN [days EXCEPT !.last_run = outcome]
             ELSE [days EXCEPT
                     !.snapshots = SnapshotsAfter(days.today,
                         WriteUnitsJson(f, units, outcome = "saved")),
                     !.last_run = outcome]
        /\ UNCHANGED <<regions, harvestVars, planVars, diffVars, rq>>

(* midnight: the next script computes its file names from the next date *)
NextDay ==
    /\ days.today < MaxDay
    /\ days' = [days EXCEPT !.today = @ + 1, !.last_run = "none",
                            !.summary_op = "none"]
    /\ UNCHANGED <<regions, harvestVars, planVars, diffVars, rq>>

NextDays == MainWardWeb \/ NextDay

SpecDays == InitDays /\ [][NextDays]_vars

-----------------------------------------------------------------------------
(* SpecSummary: append_daily_summary, units.py:477-532, called by one run
   after another *)

(* the arguments the runs pass: totals and nets of stakes, districts,
   wards, branches *)
SummaryTotals == { <<1, 0, 1, 1>>, <<1, 0, 2, 1>> }
SummaryNets == { <<0, 0, 0, 0>>, <<0, 0, 1, 0>> }

(* summary files the script has left behind: the day before only, the two
   days before, or also a row of an earlier run of today *)
SummarySeeds ==
    { << SummaryRow(0, <<1, 0, 1, 1>>, <<0, 0, 0, 0>>) >>,
      << SummaryRow(-1, <<1, 0, 1, 1>>, <<0, 0, 0, 0>>),
         SummaryRow(0, <<1, 0, 1, 1>>, <<0, 0, 0, 0>>) >>,
      << SummaryRow(0, <<1, 0, 1, 1>>, <<0, 0, 0, 0>>),
         SummaryRow(1, <<1, 0, 2, 1>>, <<0, 0, 1, 0>>) >> }

InitSummary ==
    /\ regions = SpecRegions
    /\ HarvestIdle
    /\ PlanIdle
    /\ DiffIdle
    /\ rq = NoRq
    /\ net = GetOutcomes
    /\ \E seed \in SummarySeeds : days = [NoDays EXCEPT !.summary = seed]

(* line 505: if last_line_date == script_start_day *)
SameDay_Never(last_line_date, script_start_day) == FALSE

SameDay(last_line_date, script_start_day) == last_line_date = script_start_day

(* lines 503-532: read the file, overwrite the last row or append, write *)
AppendDailySummary ==
    /\ \E totals \in SummaryTotals, nets \in SummaryNets :
         LET df == days.summary
             row == SummaryRow(days.today, totals, nets)
         IN  IF SameDay(df[Len(df)].scrape_timestamp, days.today)
             THEN days' = [days EXCEPT
                             !.summary = [df EXCEPT ![Len(df)] = row],
                             !.summary_op = "overwrite"]
             ELSE days' = [days EXCEPT
                             !.summary = Append(df, row),
                             !.summary_op = "append"]
    /\ UNCHANGED <<regions, harvestVars, planVars, diffVars, rq>>

NextSummary == AppendDailySummary \/ NextDay

SpecSummary == InitSummary /\ [][NextSummary]_vars

----------------------------------------------------------------------------
(* Claims about the harvest (Spec) *)

Scraped == pc \in {"diff", "save", "done"}

(* every record of every parsed response *)
FetchedRecords == UNION {SeqSet(b) : b \in responses}

InCritical(t) == th[t].pc \in {"update", "leave"}

(* C1: after a ward harvest in which every cell fetch succeeded, the size of
   the shared set is the number of distinct (id, name) pairs over all fetched
   records, and the logged num_duplicates add up to the number of records
   fetched minus that size *)
C1_DedupCounts ==
    (Scraped /\ stats.failed = 0) =>
        /\ Cardinality(wards) = Cardinality(Keys(FetchedRecords))
        /\ stats.duplicates = stats.fetched - Cardinality(wards)

(* the batches [(1,A),(2,B)] and [(1,A),(3,C)]: final size 3, one duplicate *)
C1_Witness ==
    /\ pc = "done"
    /\ stats.failed = 0
    /\ responses = { <<>>, << U(1, "A", "Ward"), U(2, "B", "Ward") >>,
                     << U(1, "A", "Ward"), U(3, "C", "Branch") >> }
    /\ stats.fetched = 4
    /\ Cardinality(wards) = 3
    /\ stats.duplicates = 1

(* C2: while a cell is between its pre-merge count read and its post-merge
   count read it holds the lock and no other thread is in that section, so
   no other insert falls in between; the num_wards_added it logs is the
   number of its entities the shared set lacked when it merged *)
C2_MergeAtomic ==
    \A t \in Threads :
        /\ InCritical(t) =>
              /\ lock = t
              /\ \A u \in Threads \ {t} : ~InCritical(u)
        /\ th[t].pc = "log" =>
              th[t].post_update_count - th[t].pre_update_count = th[t].fresh

(* one pool thread is merging new entities while the other waits for the lock *)
C2_Witness ==
    /\ th[1].pc = "leave"
    /\ th[1].fresh > 0
    /\ th[2].pc = "enter"
    /\ th[2].data # <<>>

----------------------------------------------------------------------------
(* Claims about the planner (SpecPlan) *)

Calls == 1..Len(plans)
RegionIds == 1..Len(regions)

(* the grid cells call n appended to region r *)
Appended(n, r) ==
    SubSeq(plans[n].cells[r], Len(plans[n].entry[r]) + 1, Len(plans[n].cells[r]))

(* x = min + (i + 0.5) * (max - min) / parts, in integers *)
IsCentroid(x, min, max, parts, i) ==
    2 * parts * x.n = x.d * (2 * parts * min + (2 * i + 1) * (max - min))

(* C6: a call that dispatches a region of R >= 1 rows and C >= 1 columns
   works with a cell list made of the coordinates the region held when the
   call began (its pinned coordinates) followed by exactly R*C grid cells,
   and dispatches exactly one fetch per cell of that list *)
C6_CellCount ==
    \A n \in Calls : \A r \in RegionIds :
        (plans[n].dispatched
           /\ regions[r].num_rows >= 1 /\ regions[r].num_columns >= 1) =>
            /\ Len(Appended(n, r)) = regions[r].num_rows * regions[r].num_columns
            /\ \A k \in 1..Len(Appended(n, r)) :
                  Appended(n, r)[k].nearest = None
            /\ SubSeq(plans[n].cells[r], 1, Len(plans[n].entry[r]))
                  = plans[n].entry[r]
            /\ Len(requests[n][r]) =
                  regions[r].num_rows * regions[r].num_columns
                    + Len(plans[n].entry[r])

(* a 2 x 2 region with one pinned coordinate: 5 fetches *)
C6_Witness ==
    /\ Len(plans) = 1
    /\ plans[1].dispatched
    /\ regions[1].num_rows = 2 /\ regions[1].num_columns = 2
    /\ Len(plans[1].entry[1]) = 1
    /\ Len(requests[1][1]) = 5

(* C7 as claimed: a call over a region with zero rows or zero columns does
   not fail, adds no grid cell to it and queries exactly its pinned cells *)
C7_ZeroGridPlans ==
    \A n \in Calls : \A r \in RegionIds :
        (regions[r].num_rows = 0 \/ regions[r].num_columns = 0) =>
            /\ ~plans[n].raised
            /\ plans[n].cells[r] = plans[n].entry[r]

(* C8 as claimed: two calls in one process work with identical cell lists
   and dispatch the same requests *)
C8_PlanRepeatable ==
    \A n \in Calls : \A m \in Calls :
        (plans[n].dispatched /\ plans[m].dispatched) =>
            /\ plans[n].cells = plans[m].cells
            /\ requests[n] = requests[m]

F25 == Frac(5, 2)
F75 == Frac(15, 2)

(* C9: every grid cell (i, j) a call appends has lat = min_lat + (i + 0.5) *
   (max_lat - min_lat) / rows and lon = min_lon + (j + 0.5) * (max_lon -
   min_lon) / columns and is requested as (lon, lat) with the region's
   default cap; a 2 x 2 region over [0,10] x [0,10] without pinned
   coordinates is requested at exactly (2.5,2.5), (2.5,7.5), (7.5,2.5) and
   (7.5,7.5) *)
C9_Centroids ==
    \A n \in Calls : \A r \in RegionIds :
        plans[n].dispatched =>
          LET R == regions[r].num_rows
              C == regions[r].num_columns
              P == Len(plans[n].entry[r])
          IN  /\ \A i \in 0..(R - 1) : \A j \in 0..(C - 1) :
                   LET cell == plans[n].cells[r][P + i * C + j + 1]
                       req == requests[n][r][P + i * C + j + 1]
                   IN  /\ IsCentroid(cell.lat, regions[r].min_lat,
                                     regions[r].max_lat, R, i)
                       /\ IsCentroid(cell.lon, regions[r].min_lon,
                                     regions[r].max_lon, C, j)
                       /\ req.coordinates = <<cell.lon, cell.lat>>
                       /\ req.nearest = regions[r].nearest
              /\ (R = 2 /\ C = 2 /\ P = 0
                    /\ regions[r].min_lat = 0 /\ regions[r].max_lat = 10
                    /\ regions[r].min_lon = 0 /\ regions[r].max_lon = 10) =>
                   /\ Len(requests[n][r]) = 4
                   /\ {requests[n][r][k].coordinates : k \in 1..4} =
                        { <<F25, F25>>, <<F25, F75>>, <<F75, F25>>, <<F75, F75>> }
                   /\ \A k \in 1..4 :
                        requests[n][r][k].nearest = regions[r].nearest

(* the 2 x 2 region over [0,10] x [0,10] was dispatched; its second request
   is the cell of row 0, column 1: lon 7.5, lat 2.5 *)
C9_Witness ==
    /\ Len(plans) = 1
    /\ plans[1].dispatched
    /\ regions[2].num_rows = 2 /\ regions[2].num_columns = 2
    /\ regions[2].min_lat = 0 /\ regions[2].max_lat = 10
    /\ regions[2].min_lon = 0 /\ regions[2].max_lon = 10
    /\ plans[1].entry[2] = <<>>
    /\ requests[1][2][2] =
          [layers |-> "WARD", coordinates |-> <<F75, F25>>, nearest |-> 2000]

----------------------------------------------------------------------------
(* Claims about the differ (SpecDiff) *)

Written == daily # None
AddedOut == daily[1].units_added \cup daily[1].small_units_added
RemovedOut == daily[1].units_removed \cup daily[1].small_units_removed

OnlyNew == {u \in new_units : Key(u) \notin Keys(old_units)}
OnlyOld == {u \in old_units : Key(u) \notin Keys(new_units)}

CollectionTypes ==
    IF unit_type = "Stake" THEN {"Stake", "District"} ELSE {"Ward", "Branch"}

(* C4: every entity written to an added file is in new and, by (id, name),
   not in old; every entity written to a removed file is in old and not in
   new; no (id, name) is on both sides; old = {A,B,C}, new = {B,C,D} of the
   ward collection gives added = {D} and removed = {A} *)
C4_DiffSound ==
    Written =>
        /\ \A u \in AddedOut : u \in new_units /\ Key(u) \notin Keys(old_units)
        /\ \A u \in RemovedOut : u \in old_units /\ Key(u) \notin Keys(new_units)
        /\ Keys(AddedOut) \cap Keys(RemovedOut) = {}
        /\ (/\ unit_type = "Ward"
            /\ old_units = {U(1, "A", "Ward"), U(2, "B", "Branch"), U(3, "C", "None")}
            /\ new_units = {U(2, "B", "Branch"), U(3, "C", "None"), U(4, "D", "Ward")})
             => /\ AddedOut = {U(4, "D", "Ward")}
                /\ RemovedOut = {U(1, "A", "Ward")}

C4_Witness ==
    /\ Written
    /\ unit_type = "Ward"
    /\ old_units = {U(1, "A", "Ward"), U(2, "B", "Branch"), U(3, "C", "None")}
    /\ new_units = {U(2, "B", "Branch"), U(3, "C", "None"), U(4, "D", "Ward")}
    /\ daily[1].units_added = {U(4, "D", "Ward")}
    /\ daily[1].units_removed = {U(1, "A", "Ward")}

----------------------------------------------------------------------------
(* Claims about the retrying fetcher (SpecRetry) *)

(* C10 as claimed: when the first three answers are 429, a fourth request is
   made, and when that one is answered 200 with JSON the call has made
   exactly 4 requests and returns the fourth response *)
C10_FourthRequest ==
    (/\ rq.pc = "returned"
     /\ Len(rq.history) >= 3
     /\ SubSeq(rq.history, 1, 3) = <<"429", "429", "429">>) =>
        /\ rq.requests >= 4
        /\ rq.history[4] = "200 json" =>
              (rq.requests = 4 /\ rq.result = Some(4))

(* the answers so far were all 429 *)
Only429 == \A k \in 1..Len(rq.history) : rq.history[k] = "429"

(* C11: while every answer is a 429 the call has slept once after each of
   them, the first time for a delay out of [0.1, 0.5] s and then for twice
   the previous delay each time; it issues at most max_retries requests and,
   when all max_retries of them were answered 429, returns None *)
C11_Backoff ==
    Only429 =>
        /\ Len(rq.sleeps) = rq.requests
        /\ \A k \in 1..Len(rq.sleeps) :
              IF k = 1 THEN rq.sleeps[1] \in 1..5
              ELSE rq.sleeps[k] = 2 * rq.sleeps[k - 1]
        /\ rq.requests <= max_retries
        /\ rq.pc = "returned" =>
              (rq.requests = max_retries /\ rq.result = None)

C11_Witness ==
    /\ rq.pc = "returned"
    /\ rq.history = <<"429", "429", "429">>
    /\ rq.sleeps = <<3, 6, 12>>
    /\ rq.result = None

(* C12 as claimed: whatever the server answers, a call never issues more
   requests than its retry ceiling *)
C12_RequestsBounded == rq.requests <= max_retries

(* C13 as claimed: a 200 whose body is neither JSON nor a login page ends
   the call: no request follows it and no response is returned *)
C13_MalformedSurfaces ==
    \A k \in 1..Len(rq.history) :
        rq.history[k] = "200 text" =>
            (k = Len(rq.history) /\ rq.result = None)

--------------------------------------------------------------------------
(* how many frames of _get_wards_at_coords are at the position p *)
At(p) == Cardinality({t \in Threads : th[t].pc = p})

(* C14: a cell whose first GET raised a connection error issues exactly
   one more GET, and no cell issues more than two: the GETs made so far
   are one per cell that has left its first GET plus one per connection
   error whose retry has been made, there are never more connection-
   error retries than cells, and a cell waiting for its retry goes on
   only by that second GET. *)
C14_SingleRetry ==
    /\ stats.gets = (stats.started - At("get"))
                    + (stats.conn_errors - At("retry"))
    /\ stats.conn_errors <= stats.started
    /\ stats.gets <= 2 * stats.started
    /\ At("retry") <= stats.conn_errors

C14_Witness ==
    /\ pc = "done"
    /\ stats.conn_errors = 2
    /\ stats.gets = stats.started + 2
    /\ stats.failed = 1

(* C15 as claimed: no error of a single cell aborts the harvest, the run
   always goes on to the diff and the snapshot save. *)
C15_NeverAborts == pc # "crashed"

(* C16 as claimed: a cell whose response has a status other than 200
   leaves the shared set as it was. *)
C16_FailedCellAddsNothing ==
    [][\A t \in Threads :
          (th[t].pc = "update" /\ th[t].status # 200) => wards' = wards]_vars

(* the cells the plan holds: one per category of the global loop and one
   per coordinate of every region *)
PlannedCells ==
    {<<0, g>> : g \in 1..Len(UNIT_TYPES)}
        \cup UNION {{<<r, k>> : k \in 1..Len(regions[r].coordinates)} :
                       r \in 1..Len(regions)}

(* C17: no cell is dispatched twice, and once the merged set is diffed or
   saved every planned cell has been dispatched, every frame has returned
   and nobody holds the lock. *)
C17_AllCellsOnce ==
    /\ Cardinality(stats.dispatched) = stats.started
    /\ stats.dispatched \subseteq PlannedCells
    /\ (Scraped \/ pc = "io_error") =>
          /\ stats.dispatched = PlannedCells
          /\ \A t \in Threads : th[t].pc = "idle"
          /\ queue = <<>>
          /\ lock = 0

C17_Witness ==
    /\ pc = "done"
    /\ stats.failed > 0
    /\ stats.dispatched = PlannedCells
    /\ Cardinality(PlannedCells) = 4

(* C18 as claimed: the snapshot of two days ago is gone only when today's
   diff files and today's snapshot have both been written. *)
C18_PruneAfterSave ==
    files.ereyesterday = None => (files.daily # None /\ files.today # None)

(* C20 as claimed: failed cells are not counted as requests that
   succeeded, the request total of the final report leaves them out. *)
C20_FailedReported ==
    Scraped => total_requests = stats.started - stats.failed

--------------------------------------------------------------------------
(* the days whose snapshot file is in the data/ directory *)
OnDisk == {k \in Days : days.snapshots[k] # None}

(* C19: after a successful run on day d the snapshot files on disk are
   exactly those of day d-1 and day d. *)
C19_TwoSnapshots ==
    days.last_run = "saved" => OnDisk = {days.today - 1, days.today}

C19_Witness ==
    /\ days.today = 3
    /\ days.last_run = "saved"
    /\ OnDisk = {2, 3}
    /\ days.snapshots[2] # days.snapshots[3]

--------------------------------------------------------------------------
(* C21 as claimed: the totals the diff reports count every entity of
   new - old and of old - new, those without a category of the collection
   included. *)
C21_RawTotals ==
    Written =>
        LET log == NetUnitsToday(daily[1]) IN
        /\ log.units_added + log.small_units_added = Cardinality(OnlyNew)
        /\ log.units_removed + log.small_units_removed = Cardinality(OnlyOld)

(* the cell a request of run n was made for *)
CellOf(n, r, c) == plans[n].cells[r][c]

(* C22 as claimed: the nearest parameter of every request is the cell's
   own cap when the cell has one and the default of its region
   otherwise. *)
C22_OwnCapOrDefault ==
    \A n \in 1..Len(requests) :
        \A r \in 1..Len(requests[n]) :
            \A c \in 1..Len(requests[n][r]) :
                requests[n][r][c].nearest =
                    IF CellOf(n, r, c).nearest # None
                    THEN CellOf(n, r, c).nearest[1]
                    ELSE regions[r].nearest

(* C23 as claimed: when get_wards_from_web has gone through its cells,
   every region is what it was when the call was entered. *)
C23_RegionsNotMutated ==
    \A n \in 1..Len(plans) :
        plans[n].dispatched => plans[n].cells = plans[n].entry

--------------------------------------------------------------------------
(* calls of _get_wards_at_coords that were entered and have not ended *)
InFlight == stats.started - stats.returned

(* C24: at most as many cell fetches are in flight at once as the pool has
   threads (20 in units.py:1111, NumWorkers here), whatever the number of
   cells of the region; outside the pool only the control thread's own
   call is. *)
C24_BoundedPool ==
    /\ InFlight <= NumWorkers
    /\ pc # "pool" => InFlight <= 1
    /\ InFlight = Cardinality({t \in Threads : th[t].pc # "idle"})

C24_Witness ==
    /\ pc = "pool"
    /\ queue # <<>>
    /\ InFlight = NumWorkers
    /\ Len(regions[ri].coordinates) > NumWorkers

--------------------------------------------------------------------------
(* how many of the first n answers were followed by a backoff *)
BackoffsIn(n) ==
    Cardinality({j \in 1..n : rq.history[j] \in {"ConnectionError", "429"}})

(* C25: an answer with a status other than 200 and 429 is returned at
   once: it is the last request of the call, the call has returned that
   response, and neither a sleep nor a retry was spent on it. *)
C25_OtherStatusReturned ==
    \A k \in 1..Len(rq.history) :
        rq.history[k] = "500" =>
            /\ k = Len(rq.history)
            /\ rq.pc = "returned"
            /\ rq.result = Some(k)
            /\ rq.requests = k
            /\ Len(rq.sleeps) = BackoffsIn(k - 1)
            /\ rq.retries = BackoffsIn(k - 1)

C25_Witness ==
    /\ rq.history = <<"429", "500">>
    /\ rq.pc = "returned"
    /\ rq.result = Some(2)
    /\ Len(rq.sleeps) = 1
    /\ rq.retries = 1

--------------------------------------------------------------------------
(* the dates of the rows of the summary, in the order of the file *)
SummaryDates == [k \in 1..Len(days.summary) |-> days.summary[k].scrape_timestamp]

(* the rows before the last one, and the rows of dates before day d *)
ButLast(q) == SubSeq(q, 1, Len(q) - 1)

(* C26: the summary never holds two rows of one date (the dates of its
   rows rise strictly); a call on the day of the last row replaces that
   row and leaves the others, a call on a later day adds one row and
   leaves the others. *)
C26_OneRowPerDay ==
    /\ [](\A j, k \in 1..Len(days.summary) :
             j < k => SummaryDates[j] < SummaryDates[k])
    /\ [][days'.summary # days.summary =>
            LET old == days.summary
                new == days'.summary
            IN  /\ new[Len(new)].scrape_timestamp = days.today
                /\ IF old[Len(old)].scrape_timestamp = days.today
                   THEN ButLast(new) = ButLast(old)
                   ELSE ButLast(new) = old]_vars

C26_Witness ==
    /\ days.summary_op = "overwrite"
    /\ days.today = 2
    /\ SummaryDates = <<0, 1, 2>>
    /\ days.summary[3].totals = <<1, 0, 2, 1>>

--------------------------------------------------------------------------
(* C27 as claimed: for both categories of the collection the net count of
   the summary is the size of the added file minus the size of the
   removed file. *)
C27_NetMatchesFiles ==
    Written =>
        LET log == NetUnitsToday(daily[1])
            nets == NetCounts(old_units, new_units, unit_type)
        IN  /\ nets[1] = log.units_added - log.units_removed
            /\ nets[2] = log.small_units_added - log.small_units_removed

--------------------------------------------------------------------------
(* the first record of a response that has the (id, name) of u *)
FirstLike(data, u) ==
    data[CHOOSE i \in 1..Len(data) :
            /\ Key(data[i]) = Key(u)
            /\ \A j \in 1..(i - 1) : Key(data[j]) # Key(u)]

(* C28: the shared set only grows, no record of it is ever removed or
   replaced, and it never holds two records of one (id, name): of the
   records of one id and name the one merged first is kept, whatever the
   other fields of those that follow. *)
C28_FirstRecordStays ==
    /\ [](\A a, b \in wards : Key(a) = Key(b) => a = b)
    /\ [][/\ wards \subseteq wards'
          /\ \A t \in Threads :
                (th[t].pc = "update" /\ th'[t].pc = "leave") =>
                    \A u \in wards' \ wards : u = FirstLike(th[t].data, u)]_vars

(* a cell that brought the "Ward" variant of 1/"A" has merged into a set
   that held the "Branch" variant *)
C28_Witness ==
    \E t \in Threads :
        /\ th[t].pc = "leave"
        /\ th[t].data = << U(1, "A", "Ward"), U(2, "B", "Ward") >>
        /\ th[t].fresh = 1
        /\ U(1, "A", "Branch") \in wards
        /\ U(1, "A", "Ward") \notin wards

--------------------------------------------------------------------------
(* the planned cells of the global loop and of the regions before r *)
CellsBefore(r) == {c \in PlannedCells : c[1] < r}

(* C29: while the regions are harvested every cell of the global loop and
   of the earlier regions has returned and no cell of a later region has
   been dispatched, so only cells of the current region are in flight;
   and when the pool of a region has ended, the growth of the set since
   the region started is the sum of the num_wards_added its cells
   logged. *)
C29_RegionBarrier ==
    /\ pc \in {"regions", "pool"} =>
          /\ CellsBefore(ri) \subseteq stats.finished
          /\ \A c \in stats.dispatched : c[1] <= ri
          /\ \A t \in Threads : th[t].pc # "idle" => th[t].cell[1] = ri
          /\ th[Main].pc = "idle"
    /\ pc \in {"global", "in_global"} =>
          \A c \in stats.dispatched : c[1] = 0
    /\ (pc = "pool" /\ PoolDone) =>
          Cardinality(wards) - pre_region_update_count = stats.region_added

C29_Witness ==
    /\ pc = "pool"
    /\ ri = 2
    /\ PoolDone
    /\ pre_region_update_count = 3
    /\ stats.region_added = 1
    /\ Cardinality(stats.finished) = 4

--------------------------------------------------------------------------
(* C30: today's snapshot is written only after the diff files of the run,
   and no step of the run, completed or failed, changes yesterday's
   snapshot file: it holds what it held when the run started. *)
C30_YesterdayKept ==
    /\ [](files.today # None => files.daily # None)
    /\ [](files.yesterday = NoFiles.yesterday)
    /\ [][files'.yesterday = files.yesterday]_vars

(* a run that failed while it saved: the diff is written, the file of two
   days ago is gone, yesterday's file is as it was *)
C30_Witness ==
    /\ pc = "io_error"
    /\ files.daily # None
    /\ files.ereyesterday = None
    /\ files.today = None
    /\ files.yesterday = Some(YesterdayWards)

====
